---- MODULE Spec2Model ----
(***************************************************************************)
(* A model of palette's gradient module (palette/src/gradient.rs):         *)
(* Gradient (control points, lookup by binary search), Range (clamp,       *)
(* constrain), Slice (a domain-limited view) and Take (the double-ended,   *)
(* exact-size iterator of evenly spaced samples).                          *)
(*                                                                         *)
(* The element type is Luma<_, T> (palette/src/luma/luma.rs), whose only   *)
(* component is one scalar, so a colour is a scalar.                       *)
(*                                                                         *)
(* C::Scalar is a binary floating-point type (T: Float).  It is modelled   *)
(* at reduced width: a finite scalar is an integer number k of units of    *)
(* 2^-FracBits whose magnitude has at most MantBits significant bits, and  *)
(* every arithmetic result is rounded to the nearest such number, ties to  *)
(* even, as IEEE 754 does.  NaN and the infinities are values; the sign of *)
(* zero and overflow to infinity are not modelled.                         *)
(***************************************************************************)
EXTENDS Integers, Sequences, FiniteSets

VARIABLES
    gradient,   \* Gradient.0: the control points, a sequence of [p, c]
    st,         \* "init" | "ready" | "panic" | "hang"
    slice,      \* the Slice in hand: [live, range]
    take,       \* the Take in hand: [live, src, range, from, diff, len, from_head, from_end]
    ret,        \* what the last call returned
    made        \* the constructor that built the gradient: "none" | "new" | "with_domain"

vars == <<gradient, st, slice, take, ret, made>>

----------------------------------------------------------------------------
(* Bounds of the model *)

MantBits == 3       \* significant bits of a scalar
FracBits == 6       \* the unit of a scalar is 2^-FracBits
MaxNew == 6         \* longest colour list given to Gradient::new
MaxPts == 3         \* longest point list given to Gradient::with_domain
MaxTakePts == 2     \* longest list a sampled gradient is built from
MaxN == 3           \* largest n given to take
MaxSample == 6      \* largest n of a take that is collected whole
MaxChain == 3       \* longest chain of slice calls
MaxUse == 2         \* largest n of a take of a gradient in use

----------------------------------------------------------------------------
(* C::Scalar: floating-point arithmetic *)

Pow2(n) == 2 ^ n
Unit == Pow2(FracBits)

Fin(k) == [c |-> "fin", k |-> k]
NaN == [c |-> "nan", k |-> 0]
Inf(s) == [c |-> "inf", k |-> s]

IsNaN(x) == x.c = "nan"
IsFin(x) == x.c = "fin"
IsInf(x) == x.c = "inf"

Abs(n) == IF n < 0 THEN -n ELSE n
Sgn(n) == IF n < 0 THEN -1 ELSE 1

\* the least j such that a/d < 2^(MantBits + j): the exponent of the result
RECURSIVE Exponent(_, _, _)
Exponent(a, d, j) == IF a < d * Pow2(MantBits + j) THEN j ELSE Exponent(a, d, j + 1)

\* a/b (a >= 0, b > 0) to the nearest integer, ties to even
RoundHalfEven(a, b) ==
    LET q == a \div b
        r == a % b
    IN  IF 2 * r < b THEN q
        ELSE IF 2 * r > b THEN q + 1
        ELSE IF q % 2 = 0 THEN q ELSE q + 1

\* the rational n/d (d > 0), in units, rounded to a representable scalar
RoundRat(n, d) ==
    LET a == Abs(n)
        j == Exponent(a, d, 0)
    IN  Fin(Sgn(n) * RoundHalfEven(a, d * Pow2(j)) * Pow2(j))

\* cast::<C::Scalar, _>(n) for an unsigned integer n
Cast(n) == RoundRat(n * Unit, 1)

Zero == Fin(0)
One == Cast(1)

FNeg(x) == IF IsNaN(x) THEN NaN ELSE [x EXCEPT !.k = -x.k]

FAdd(x, y) ==
    IF IsNaN(x) \/ IsNaN(y) THEN NaN
    ELSE IF IsInf(x) /\ IsInf(y) THEN (IF x.k = y.k THEN x ELSE NaN)
    ELSE IF IsInf(x) THEN x
    ELSE IF IsInf(y) THEN y
    ELSE RoundRat(x.k + y.k, 1)

FSub(x, y) == FAdd(x, FNeg(y))

FMul(x, y) ==
    IF IsNaN(x) \/ IsNaN(y) THEN NaN
    ELSE IF IsInf(x) \/ IsInf(y)
         THEN (IF x.k = 0 \/ y.k = 0 THEN NaN ELSE Inf(Sgn(x.k) * Sgn(y.k)))
    ELSE RoundRat(x.k * y.k, Unit)

FDiv(x, y) ==
    IF IsNaN(x) \/ IsNaN(y) THEN NaN
    ELSE IF IsInf(x) THEN (IF IsInf(y) THEN NaN ELSE Inf(x.k * Sgn(y.k)))
    ELSE IF IsInf(y) THEN Zero
    ELSE IF y.k = 0 THEN (IF x.k = 0 THEN NaN ELSE Inf(Sgn(x.k)))
    ELSE RoundRat(Sgn(y.k) * x.k * Unit, Abs(y.k))

\* x <= y: false whenever an operand is NaN
FLe(x, y) ==
    IF IsNaN(x) \/ IsNaN(y) THEN FALSE
    ELSE IF IsInf(x) THEN (x.k = -1 \/ y = x)
    ELSE IF IsInf(y) THEN y.k = 1
    ELSE x.k <= y.k

FGe(x, y) == FLe(y, x)
FLt(x, y) == FLe(x, y) /\ x # y
FGt(x, y) == FLt(y, x)

\* Float::max and Float::min: a NaN operand is ignored
FMax(x, y) == IF IsNaN(x) THEN y ELSE IF IsNaN(y) THEN x ELSE IF FLe(x, y) THEN y ELSE x
FMin(x, y) == IF IsNaN(x) THEN y ELSE IF IsNaN(y) THEN x ELSE IF FLe(x, y) THEN x ELSE y

----------------------------------------------------------------------------
(* Mix for Luma *)

\* Luma::mix: self + clamp(factor, 0, 1) * (other - self)
Mix(self, other, factor) ==
    LET f == IF FLt(factor, Zero) THEN Zero
             ELSE IF FGt(factor, One) THEN One
             ELSE factor
    IN  FAdd(self, FMul(f, FSub(other, self)))

----------------------------------------------------------------------------
(* Gradient *)

Max(a, b) == IF a >= b THEN a ELSE b

\* Gradient::new: the points of a non-empty colour list, evenly spaced
GradientNew(colors) ==
    LET step_size == FDiv(One, Cast(Max(Len(colors) - 1, 1)))
    IN  [i \in 1..Len(colors) |-> [p |-> FMul(Cast(i - 1), step_size), c |-> colors[i]]]

\* Search with the probe compared by i < p instead of i <= p
RECURSIVE SearchStrict(_, _, _, _, _)
SearchStrict(pts, i, min, max, probes) ==
    IF min.index < max.index - 1
    THEN LET index == min.index + (max.index - min.index) \div 2
             probe == [min_index |-> min.index, max_index |-> max.index, index |-> index]
             pt == pts[index + 1]
             here == [p |-> pt.p, c |-> pt.c, index |-> index]
         IN  IF FLt(i, pt.p)
             THEN SearchStrict(pts, i, min, here, Append(probes, probe))
             ELSE SearchStrict(pts, i, here, max, Append(probes, probe))
    ELSE LET factor == FDiv(FSub(i, min.p), FSub(max.p, min.p))
         IN  [kind |-> "mix", val |-> Mix(min.c, max.c, factor), factor |-> factor,
              min |-> min, max |-> max, probes |-> probes]

\* the loop of Gradient::get; min and max are [p, c, index] of the bracket so far
RECURSIVE Search(_, _, _, _, _)
Search(pts, i, min, max, probes) ==
    IF min.index < max.index - 1
    THEN LET index == min.index + (max.index - min.index) \div 2
             probe == [min_index |-> min.index, max_index |-> max.index, index |-> index]
         IN  IF index < 0 \/ index >= Len(pts)
             THEN [kind |-> "out_of_bounds", probes |-> Append(probes, probe)]
             ELSE LET pt == pts[index + 1]
                      here == [p |-> pt.p, c |-> pt.c, index |-> index]
                  IN  IF FLe(i, pt.p)
                      THEN Search(pts, i, min, here, Append(probes, probe))
                      ELSE Search(pts, i, here, max, Append(probes, probe))
    ELSE LET factor == FDiv(FSub(i, min.p), FSub(max.p, min.p))
         IN  [kind |-> "mix", val |-> Mix(min.c, max.c, factor), factor |-> factor,
              min |-> min, max |-> max, probes |-> probes]

\* Gradient::get with the first early return taken for i < min only
GradientGetStrictMin(pts, i) ==
    LET min == [p |-> pts[1].p, c |-> pts[1].c, index |-> 0]
        max == [p |-> pts[Len(pts)].p, c |-> pts[Len(pts)].c, index |-> Len(pts) - 1]
    IN  IF FLt(i, min.p) THEN [kind |-> "first", val |-> min.c]
        ELSE IF FGe(i, max.p) THEN [kind |-> "last", val |-> max.c]
        ELSE IF max.index = 0 THEN [kind |-> "underflow"]
        ELSE Search(pts, i, min, max, <<>>)

\* Gradient::get with the second early return taken for i > max only
GradientGetStrictMax(pts, i) ==
    LET min == [p |-> pts[1].p, c |-> pts[1].c, index |-> 0]
        max == [p |-> pts[Len(pts)].p, c |-> pts[Len(pts)].c, index |-> Len(pts) - 1]
    IN  IF FLe(i, min.p) THEN [kind |-> "first", val |-> min.c]
        ELSE IF FGt(i, max.p) THEN [kind |-> "last", val |-> max.c]
        ELSE IF max.index = 0 THEN [kind |-> "underflow"]
        ELSE Search(pts, i, min, max, <<>>)

\* Gradient::get on the control points pts (at least one) at position i
GradientGet(pts, i) ==
    LET min == [p |-> pts[1].p, c |-> pts[1].c, index |-> 0]
        max == [p |-> pts[Len(pts)].p, c |-> pts[Len(pts)].c, index |-> Len(pts) - 1]
    IN  IF FLe(i, min.p) THEN [kind |-> "first", val |-> min.c]
        ELSE IF FGe(i, max.p) THEN [kind |-> "last", val |-> max.c]
        ELSE IF max.index = 0 THEN [kind |-> "underflow"]  \* max_index - 1 on a usize
        ELSE Search(pts, i, min, max, <<>>)

\* Gradient::domain
GradientDomain(pts) == <<pts[1].p, pts[Len(pts)].p>>

\* a call that ends in a failure leaves no value: an arithmetic overflow panics in a
\* build with overflow checks and wraps in one without, where the loop of get then
\* never ends (min_index stays 0 below max_index - 1 = usize::MAX)
Failed(r) == r.kind \in {"underflow", "out_of_bounds"}
Outcomes(r) ==
    IF r.kind = "underflow" THEN {"panic", "hang"}
    ELSE IF r.kind = "out_of_bounds" THEN {"panic"}
    ELSE {"ready"}

----------------------------------------------------------------------------
(* Range *)

None == [some |-> FALSE]
Some(x) == [some |-> TRUE, v |-> x]

\* Option::unwrap_or
UnwrapOr(o, x) == IF o.some THEN o.v ELSE x

\* Range::clamp that moves x up by a quarter before bounding it
RangeClampShifted(self, x) ==
    LET x1 == FMax(UnwrapOr(self.from, x), FAdd(x, FDiv(Cast(1), Cast(4))))
    IN  FMin(UnwrapOr(self.to, x1), x1)

\* Range::clamp that bounds by to first and by from last
RangeClampToFirst(self, x) ==
    LET x1 == FMin(UnwrapOr(self.to, x), x)
    IN  FMax(UnwrapOr(self.from, x1), x1)

\* Range::clamp
RangeClamp(self, x) ==
    LET x1 == FMax(UnwrapOr(self.from, x), x)
    IN  FMin(UnwrapOr(self.to, x1), x1)

\* Range::constrain without its two early returns
RangeConstrainNoCollapse(self, other) ==
    [from |-> IF self.from.some /\ other.from.some
              THEN Some(FMax(self.from.v, other.from.v))
              ELSE IF self.from.some THEN self.from
              ELSE other.from,
     to   |-> IF self.to.some /\ other.to.some
              THEN Some(FMin(self.to.v, other.to.v))
              ELSE IF self.to.some THEN self.to
              ELSE other.to]

\* Range::constrain with its two early returns in the other order
RangeConstrainFromFirst(self, other) ==
    IF other.to.some /\ self.from.some /\ FLe(other.to.v, self.from.v)
    THEN [from |-> self.from, to |-> self.from]
    ELSE IF other.from.some /\ self.to.some /\ FGe(other.from.v, self.to.v)
    THEN [from |-> self.to, to |-> self.to]
    ELSE RangeConstrainNoCollapse(self, other)

\* Range::constrain
RangeConstrain(self, other) ==
    IF other.from.some /\ self.to.some /\ FGe(other.from.v, self.to.v)
    THEN [from |-> self.to, to |-> self.to]
    ELSE IF other.to.some /\ self.from.some /\ FLe(other.to.v, self.from.v)
    THEN [from |-> self.from, to |-> self.from]
    ELSE [from |-> IF self.from.some /\ other.from.some
                   THEN Some(FMax(self.from.v, other.from.v))
                   ELSE IF self.from.some THEN self.from
                   ELSE other.from,
          to   |-> IF self.to.some /\ other.to.some
                   THEN Some(FMin(self.to.v, other.to.v))
                   ELSE IF self.to.some THEN self.to
                   ELSE other.to]

----------------------------------------------------------------------------
(* Slice: a range over the gradient pts *)

\* Gradient::slice: a Slice that refers to the Gradient, with the range given
GradientSlice(range) == [live |-> TRUE, gradient |-> "Gradient", range |-> range]

\* Slice::slice that wraps the receiver instead of its gradient
SliceOfSliceNested(self, range) ==
    [live |-> TRUE, gradient |-> "Slice", range |-> RangeConstrain(self.range, range)]

\* Slice::slice that constrains the range given by the receiver's
SliceOfSliceSwapped(self, range) ==
    [live |-> TRUE, gradient |-> self.gradient, range |-> RangeConstrain(range, self.range)]

\* Slice::slice: a Slice of the receiver's gradient, with the receiver's range
\* constrained by the range given
SliceOfSlice(self, range) ==
    [live |-> TRUE, gradient |-> self.gradient, range |-> RangeConstrain(self.range, range)]

\* g.slice(r1).slice(r2)...slice(rm): the slices made one after the other, acc
\* holding those made so far
RECURSIVE SliceChain(_, _)
SliceChain(acc, ranges) ==
    IF ranges = <<>> THEN acc
    ELSE SliceChain(Append(acc, IF acc = <<>> THEN GradientSlice(Head(ranges))
                                ELSE SliceOfSlice(acc[Len(acc)], Head(ranges))),
                    Tail(ranges))

\* Slice::get that looks i up as it is
SliceGetUnclamped(pts, range, i) == GradientGet(pts, i)

\* Slice::get
SliceGet(pts, range, i) == GradientGet(pts, RangeClamp(range, i))

\* Slice::domain that falls back to the whole domain of the parent when a bound
\* is absent
SliceDomainOfParent(pts, range) ==
    IF range.from.some /\ range.to.some
    THEN <<range.from.v, range.to.v>>
    ELSE GradientDomain(pts)

\* Slice::domain
SliceDomain(pts, range) ==
    IF range.from.some /\ range.to.some
    THEN <<range.from.v, range.to.v>>
    ELSE LET d == GradientDomain(pts)
         IN  <<UnwrapOr(range.from, d[1]), UnwrapOr(range.to, d[2])>>

----------------------------------------------------------------------------
(* Take *)

\* the Take that Gradient::take and Slice::take build from the source's domain
NewTake(src, range, domain, n) ==
    [live |-> TRUE, src |-> src, range |-> range,
     from |-> domain[1], diff |-> FSub(domain[2], domain[1]),
     len |-> n, from_head |-> 0, from_end |-> 0]

\* Gradient::take
GradientTake(pts, n) == NewTake("NotSlice", [from |-> None, to |-> None], GradientDomain(pts), n)

\* Slice::take
SliceTake(pts, range, n) == NewTake("Slice", range, SliceDomain(pts, range), n)

\* a Take that nothing was read from yet
IsFresh(t) == t.from_head = 0 /\ t.from_end = 0

\* MaybeSlice::get
MaybeSliceGet(pts, t, i) ==
    IF t.src = "NotSlice" THEN GradientGet(pts, i) ELSE SliceGet(pts, t.range, i)

\* the position of sample k of a Take with len >= 2
SampleAt(t, k) == FAdd(t.from, FMul(FDiv(t.diff, Cast(t.len - 1)), Cast(k)))

\* Take::next that still yields when from_head + from_end = len
TakeNextPastEnd(pts, t) ==
    IF t.from_head + t.from_end <= t.len
    THEN [take |-> [t EXCEPT !.from_head = @ + 1], at |-> t.from,
          out |-> MaybeSliceGet(pts, t, t.from)]
    ELSE [take |-> t, out |-> [kind |-> "none"]]

\* Take::next without the len = 1 case: the sample position is always computed
TakeNextDividing(pts, t) ==
    IF t.from_head + t.from_end < t.len
    THEN LET i == SampleAt(t, t.from_head)
         IN  [take |-> [t EXCEPT !.from_head = @ + 1], at |-> i,
              out |-> MaybeSliceGet(pts, t, i)]
    ELSE [take |-> t, out |-> [kind |-> "none"]]

\* Take::next: the Take afterwards, and what is returned (out.kind = "none" for None)
TakeNext(pts, t) ==
    IF t.from_head + t.from_end < t.len
    THEN IF t.len = 1
         THEN [take |-> [t EXCEPT !.from_head = @ + 1], at |-> t.from,
               out |-> MaybeSliceGet(pts, t, t.from)]
         ELSE LET i == SampleAt(t, t.from_head)
              IN  [take |-> [t EXCEPT !.from_head = @ + 1], at |-> i,
                   out |-> MaybeSliceGet(pts, t, i)]
    ELSE [take |-> t, out |-> [kind |-> "none"]]

\* Take::next_back sampling at len - from_end instead of len - from_end - 1
TakeNextBackOffByOne(pts, t) ==
    IF t.from_head + t.from_end < t.len
    THEN IF t.len = 1
         THEN [take |-> [t EXCEPT !.from_end = @ + 1], at |-> t.from,
               out |-> MaybeSliceGet(pts, t, t.from)]
         ELSE LET i == SampleAt(t, t.len - t.from_end)
              IN  [take |-> [t EXCEPT !.from_end = @ + 1], at |-> i,
                   out |-> MaybeSliceGet(pts, t, i)]
    ELSE [take |-> t, out |-> [kind |-> "none"]]

\* Take::next_back
TakeNextBack(pts, t) ==
    IF t.from_head + t.from_end < t.len
    THEN IF t.len = 1
         THEN [take |-> [t EXCEPT !.from_end = @ + 1], at |-> t.from,
               out |-> MaybeSliceGet(pts, t, t.from)]
         ELSE LET i == SampleAt(t, t.len - t.from_end - 1)
              IN  [take |-> [t EXCEPT !.from_end = @ + 1], at |-> i,
                   out |-> MaybeSliceGet(pts, t, i)]
    ELSE [take |-> t, out |-> [kind |-> "none"]]

\* Take::size_hint: len - from_head - from_end on usize
TakeSizeHint(t) ==
    IF t.len - t.from_head < 0 \/ t.len - t.from_head - t.from_end < 0
    THEN [kind |-> "underflow"]
    ELSE [kind |-> "hint", lower |-> t.len - t.from_head - t.from_end,
          upper |-> Some(t.len - t.from_head - t.from_end)]

\* Iterator::collect on a Take (back = FALSE) or on its rev() (back = TRUE): the
\* values of next (next_back) until it returns None; a failing call ends it
RECURSIVE Collect(_, _, _, _)
Collect(pts, t, back, acc) ==
    LET r == IF back THEN TakeNextBack(pts, t) ELSE TakeNext(pts, t)
    IN  IF r.out.kind = "none" THEN [kind |-> "list", vals |-> acc, take |-> r.take]
        ELSE IF Failed(r.out) THEN [kind |-> r.out.kind, vals |-> acc, take |-> r.take]
        ELSE Collect(pts, r.take, back, Append(acc, r.out.val))

----------------------------------------------------------------------------
(* State *)

NoSlice == [live |-> FALSE]
NoTake == [live |-> FALSE]
NoRet == [op |-> "none"]

Init ==
    /\ gradient = <<>>
    /\ st = "init"
    /\ slice = NoSlice
    /\ take = NoTake
    /\ ret = NoRet
    /\ made = "none"

\* an assertion that lets the empty list through
NewAssertAny(points) == Len(points) >= 0

\* assert!(points.len() > 0) in Gradient::new
NewAssert(points) == Len(points) > 0

\* assert!(colors.len() > 0) in Gradient::with_domain
WithDomainAssert(colors) == Len(colors) > 0

\* Gradient::new(colors)
New(colors) ==
    /\ st = "init"
    /\ IF NewAssert(colors)
       THEN /\ gradient' = GradientNew(colors)
            /\ st' = "ready"
            /\ made' = "new"
       ELSE /\ st' = "panic"
            /\ UNCHANGED <<gradient, made>>
    /\ ret' = [op |-> "new", arg |-> colors]
    /\ UNCHANGED <<slice, take>>

\* Gradient::with_domain(colors)
WithDomain(colors) ==
    /\ st = "init"
    /\ IF WithDomainAssert(colors)
       THEN /\ gradient' = colors
            /\ st' = "ready"
            /\ made' = "with_domain"
       ELSE /\ st' = "panic"
            /\ UNCHANGED <<gradient, made>>
    /\ ret' = [op |-> "with_domain", arg |-> colors]
    /\ UNCHANGED <<slice, take>>

\* Gradient::get(i)
Get(i) ==
    /\ st = "ready"
    /\ LET r == GradientGet(gradient, i)
       IN  /\ ret' = [op |-> "get", arg |-> i, out |-> r]
           /\ st' \in Outcomes(r)
    /\ UNCHANGED <<gradient, slice, take, made>>

\* Gradient::domain()
Domain ==
    /\ st = "ready"
    /\ ret' = [op |-> "domain", val |-> GradientDomain(gradient)]
    /\ UNCHANGED <<gradient, st, slice, take, made>>


\* Gradient::slice(range)
Slice(range) ==
    /\ st = "ready"
    /\ slice' = GradientSlice(range)
    /\ ret' = [op |-> "slice", arg |-> range]
    /\ UNCHANGED <<gradient, st, take, made>>

\* Slice::slice(range)
SliceSlice(range) ==
    /\ st = "ready"
    /\ slice.live
    /\ slice' = SliceOfSlice(slice, range)
    /\ ret' = [op |-> "slice_slice", arg |-> range, of |-> slice.range]
    /\ UNCHANGED <<gradient, st, take, made>>

\* g.slice(r1).slice(r2)...slice(rm) for the ranges given, at least one; the last
\* slice made is the slice in hand
SliceChainCall(ranges) ==
    /\ st = "ready"
    /\ ranges # <<>>
    /\ LET steps == SliceChain(<<>>, ranges)
       IN  /\ slice' = steps[Len(steps)]
           /\ ret' = [op |-> "slice_chain", arg |-> ranges, steps |-> steps]
    /\ UNCHANGED <<gradient, st, take, made>>

\* Slice::get(i)
SliceGetCall(i) ==
    /\ st = "ready"
    /\ slice.live
    /\ LET r == SliceGet(gradient, slice.range, i)
       IN  /\ ret' = [op |-> "slice_get", arg |-> i, out |-> r]
           /\ st' \in Outcomes(r)
    /\ UNCHANGED <<gradient, slice, take, made>>

\* Slice::domain()
SliceDomainCall ==
    /\ st = "ready"
    /\ slice.live
    /\ ret' = [op |-> "slice_domain", val |-> SliceDomain(gradient, slice.range)]
    /\ UNCHANGED <<gradient, st, slice, take, made>>

\* Gradient::take(n)
Take(n) ==
    /\ st = "ready"
    /\ take' = GradientTake(gradient, n)
    /\ ret' = [op |-> "take", arg |-> n]
    /\ UNCHANGED <<gradient, st, slice, made>>

\* Slice::take(n)
SliceTakeCall(n) ==
    /\ st = "ready"
    /\ slice.live
    /\ take' = SliceTake(gradient, slice.range, n)
    /\ ret' = [op |-> "slice_take", arg |-> n]
    /\ UNCHANGED <<gradient, st, slice, made>>

\* a next() that hands out the gradient's own control points, dropping the first
NextDraining ==
    /\ st = "ready"
    /\ take.live
    /\ LET r == TakeNext(gradient, take)
       IN  /\ take' = r.take
           /\ ret' = [op |-> "next", before |-> take, out |-> r.out]
           /\ st' \in Outcomes(r.out)
    /\ gradient' = IF Len(gradient) > 1 THEN Tail(gradient) ELSE gradient
    /\ UNCHANGED <<slice, made>>

\* Take::next()
Next ==
    /\ st = "ready"
    /\ take.live
    /\ LET r == TakeNext(gradient, take)
       IN  /\ take' = r.take
           /\ ret' = [op |-> "next", before |-> take, out |-> r.out]
           /\ st' \in Outcomes(r.out)
    /\ UNCHANGED <<gradient, slice, made>>

\* Take::next_back()
NextBack ==
    /\ st = "ready"
    /\ take.live
    /\ LET r == TakeNextBack(gradient, take)
       IN  /\ take' = r.take
           /\ ret' = [op |-> "next_back", before |-> take, out |-> r.out]
           /\ st' \in Outcomes(r.out)
    /\ UNCHANGED <<gradient, slice, made>>

\* Take::size_hint()
SizeHint ==
    /\ st = "ready"
    /\ take.live
    /\ LET r == TakeSizeHint(take)
       IN  /\ ret' = [op |-> "size_hint", out |-> r]
           /\ st' \in Outcomes(r)
    /\ UNCHANGED <<gradient, slice, take, made>>

\* collect() on the Take in hand, or rev().collect() when back
CollectCall(back) ==
    /\ st = "ready"
    /\ take.live
    /\ LET r == Collect(gradient, take, back, <<>>)
       IN  /\ take' = r.take
           /\ ret' = [op |-> "collect", back |-> back, before |-> take, out |-> r]
           /\ st' \in Outcomes(r)
    /\ UNCHANGED <<gradient, slice, made>>

\* range.into(): a Range in hand, before anything was applied to it
Into(range) == [op |-> "into", val |-> range, base |-> range, chain |-> <<>>]

\* the state after a Range was built by into()
InitRange(ranges) ==
    /\ gradient = <<>>
    /\ st = "init"
    /\ slice = NoSlice
    /\ take = NoTake
    /\ ret \in {Into(range) : range \in ranges}
    /\ made = "none"

\* Range::clamp(x) on the Range in hand
RangeClampCall(x) ==
    /\ ret.op \in {"into", "constrain"}
    /\ ret' = [op |-> "clamp", self |-> ret.val, arg |-> x, val |-> RangeClamp(ret.val, x),
               base |-> ret.base, chain |-> ret.chain]
    /\ UNCHANGED <<gradient, st, slice, take, made>>

\* Range::constrain(other) on the Range in hand; the result is the Range in hand
RangeConstrainCall(other) ==
    /\ ret.op \in {"into", "constrain"}
    /\ ret' = [op |-> "constrain", self |-> ret.val, other |-> other,
               val |-> RangeConstrain(ret.val, other),
               base |-> ret.base, chain |-> Append(ret.chain, other)]
    /\ UNCHANGED <<gradient, st, slice, take, made>>

----------------------------------------------------------------------------
(* Inputs *)

Colors == {Zero, One}
Half == FDiv(One, Cast(2))

\* the colour lists of length 0..n
ColorLists(n) == UNION {[1..k -> Colors] : k \in 0..n}

\* positions of control points: unordered, repeated and NaN positions included
PointPositions == {Zero, Half, One, NaN}

\* point lists of length 0..n; the i-th point has colour i - 1
PointLists(n) ==
    UNION {{[i \in 1..k |-> [p |-> ps[i], c |-> Cast(i - 1)]] : ps \in [1..k -> PointPositions]}
           : k \in 0..n}

\* positions looked up: every i/d, a position below every point, and NaN
Positions ==
    {FDiv(Cast(i), Cast(d)) : i \in 0..MaxNew, d \in 1..MaxNew} \cup {FNeg(Half), NaN}

----------------------------------------------------------------------------
(* Construction and lookup *)

NextGet ==
    \/ \E colors \in ColorLists(MaxNew) : New(colors)
    \/ \E colors \in PointLists(MaxPts) : WithDomain(colors)
    \/ \E i \in Positions : Get(i)
    \/ Domain

SpecGet == Init /\ [][NextGet]_vars

----------------------------------------------------------------------------
(* Sampling: a gradient, at most one slice of it, and one Take of either, read  *)
(* call by call or collected whole while it is fresh                          *)

Quarter == FDiv(One, Cast(4))
ThreeQuarters == FSub(One, Quarter)

\* bounds of ranges: inside the unit domain, in either order
RangeBounds == {None, Some(Quarter), Some(ThreeQuarters)}
Ranges == [from : RangeBounds, to : RangeBounds]

NextTake ==
    \/ \E colors \in ColorLists(MaxTakePts) : New(colors)
    \/ \E colors \in PointLists(MaxTakePts) : WithDomain(colors)
    \/ \E range \in Ranges : ~slice.live /\ ~take.live /\ Slice(range)
    \/ \E n \in 0..MaxN : ~take.live /\ Take(n)
    \/ \E n \in 0..MaxN : ~take.live /\ SliceTakeCall(n)
    \/ Next
    \/ NextBack
    \/ SizeHint
    \/ \E back \in BOOLEAN : take.live /\ IsFresh(take) /\ CollectCall(back)

SpecTake == Init /\ [][NextTake]_vars

----------------------------------------------------------------------------
(* Whole sequences: a gradient, at most one slice of it, and a take(n) of       *)
(* either that is collected whole, forward or backward                         *)

FiveSixteenths == FDiv(Cast(5), Cast(16))
SevenEighths == FDiv(Cast(7), Cast(8))

\* bounds of the ranges sliced before sampling
SampleBounds ==
    {None, Some(Zero), Some(Quarter), Some(FiveSixteenths), Some(Half),
     Some(ThreeQuarters), Some(SevenEighths), Some(One)}
SampleRanges == [from : SampleBounds, to : SampleBounds]

NextSample ==
    \/ \E colors \in ColorLists(MaxTakePts) : New(colors)
    \/ \E colors \in PointLists(MaxTakePts) : WithDomain(colors)
    \/ \E range \in SampleRanges : ~slice.live /\ ~take.live /\ Slice(range)
    \/ \E n \in 0..MaxSample : ~take.live /\ Take(n)
    \/ \E n \in 0..MaxSample : ~take.live /\ SliceTakeCall(n)
    \/ \E back \in BOOLEAN : take.live /\ IsFresh(take) /\ CollectCall(back)

SpecSample == Init /\ [][NextSample]_vars

----------------------------------------------------------------------------
(* Range algebra: a Range, constrained by up to two others, and clamping by it  *)
(* or by what one constrain made of it                                          *)

\* bounds of ranges: absent, four values in either order, equal, and NaN
RangeValues == {Zero, Quarter, Half, ThreeQuarters, NaN}
AllBounds == {None} \cup {Some(v) : v \in RangeValues}
AllRanges == [from : AllBounds, to : AllBounds]

\* the scalars clamped: bounds, values between, below and above them, and NaN
ClampArgs == RangeValues \cup {FNeg(Half), FDiv(Cast(3), Cast(8)), One}

NextRange ==
    \/ \E x \in ClampArgs : Len(ret.chain) <= 1 /\ RangeClampCall(x)
    \/ \E other \in AllRanges : Len(ret.chain) <= 1 /\ RangeConstrainCall(other)

SpecRange == InitRange(AllRanges) /\ [][NextRange]_vars

----------------------------------------------------------------------------
(* Slices: a gradient, a slice of it, slices of the slice, and lookups and the   *)
(* domain of the slice in hand                                                  *)

NextSlice ==
    \/ \E colors \in ColorLists(MaxPts) : New(colors)
    \/ \E colors \in PointLists(MaxPts) : WithDomain(colors)
    \/ \E range \in Ranges : Slice(range)
    \/ \E range \in Ranges : SliceSlice(range)
    \/ \E i \in ClampArgs : SliceGetCall(i)
    \/ SliceDomainCall

SpecSlice == Init /\ [][NextSlice]_vars

----------------------------------------------------------------------------
(* A gradient in use: every operation that borrows it, in any order: lookups    *)
(* and the domain of the gradient and of the slice in hand, new slices and      *)
(* iterators at any time, and the iterator in hand advanced from either end     *)

UsePositions == {Quarter, NaN}
UseRanges == [from : {None, Some(Quarter)}, to : {Some(ThreeQuarters)}]

NextUse ==
    \/ \E colors \in ColorLists(MaxTakePts) : New(colors)
    \/ \E colors \in PointLists(1) : WithDomain(colors)
    \/ \E i \in UsePositions : Get(i)
    \/ Domain
    \/ \E range \in UseRanges : Slice(range)
    \/ \E range \in UseRanges : SliceSlice(range)
    \/ \E i \in UsePositions : SliceGetCall(i)
    \/ SliceDomainCall
    \/ \E n \in 0..MaxUse : Take(n)
    \/ \E n \in 0..MaxUse : SliceTakeCall(n)
    \/ Next
    \/ NextBack

SpecUse == Init /\ [][NextUse]_vars

----------------------------------------------------------------------------
(* Chains of slices: a two-stop gradient, chains of slice calls on it written   *)
(* as one expression or call by call, and the domain of the slice in hand       *)

\* the ranges of a chain written as one expression: .. to 1/4, 1/4 .., 1/4 .. 3/4
\* and the inverted 3/4 .. 1/4
ChainRanges ==
    {[from |-> None, to |-> Some(Quarter)],
     [from |-> Some(Quarter), to |-> None],
     [from |-> Some(Quarter), to |-> Some(ThreeQuarters)],
     [from |-> Some(ThreeQuarters), to |-> Some(Quarter)]}

\* the sequences of 1..n ranges
RangeLists(n) == UNION {[1..k -> ChainRanges] : k \in 1..n}

NextChain ==
    \/ \E colors \in [1..2 -> Colors] : New(colors)
    \/ \E ranges \in RangeLists(MaxChain) : SliceChainCall(ranges)
    \/ \E range \in Ranges : Slice(range)
    \/ \E range \in Ranges : SliceSlice(range)
    \/ SliceDomainCall

SpecChain == Init /\ [][NextChain]_vars

----------------------------------------------------------------------------
(* Properties of construction and lookup, under SpecGet *)

Lo == GradientDomain(gradient)[1]
Hi == GradientDomain(gradient)[2]
First == gradient[1]
Last == gradient[Len(gradient)]
Got == ret.op = "get"

\* C1: at every position p <= lo, get(p) takes the first early return and gives the
\* first control point's value, with no blend
GetAtOrBelowMinIsFirst ==
    (Got /\ FLe(ret.arg, Lo)) => (ret.out.kind = "first" /\ ret.out.val = First.c)

\* get was called below the domain of a gradient of several points whose end values differ
GetBelowMinWitness ==
    /\ Got /\ FLt(ret.arg, Lo)
    /\ Len(gradient) >= 2 /\ First.c # Last.c
    /\ ret.out.val = First.c

\* C2 as stated: at every position p >= hi, get(p) gives the last control point's value
GetAtOrAboveMaxIsLast ==
    (Got /\ FGe(ret.arg, Hi)) => (~Failed(ret.out) /\ ret.out.val = Last.c)

\* C2 amended: at every position p >= hi that is not also <= lo, get(p) takes the
\* second early return and gives the last control point's value, with no blend
GetAtOrAboveMaxPastMinIsLast ==
    (Got /\ FGe(ret.arg, Hi) /\ ~FLe(ret.arg, Lo))
        => (ret.out.kind = "last" /\ ret.out.val = Last.c)

\* get was called at or above the upper limit of a gradient whose end values differ
GetAboveMaxWitness ==
    /\ Got /\ FGe(ret.arg, Hi) /\ ~FLe(ret.arg, Lo)
    /\ Len(gradient) >= 2 /\ First.c # Last.c
    /\ ret.out.val = Last.c

\* the control points are ordered by non-decreasing position
IsOrdered(pts) == \A j \in 1..(Len(pts) - 1) : FLe(pts[j].p, pts[j + 1].p)

\* the adjacent pairs (j, j+1), counted from 1, with x_j < p <= x_{j+1}
Brackets(pts, p) == {j \in 1..(Len(pts) - 1) : FLt(pts[j].p, p) /\ FLe(p, pts[j + 1].p)}

\* C3: on ordered control points and lo < p < hi, exactly one adjacent pair brackets
\* p, the search ends on it, and get(p) is the blend of its two values with the
\* factor (p - x_j) / (x_{j+1} - x_j)
GetInsideIsBracketBlend ==
    (Got /\ IsOrdered(gradient) /\ FLt(Lo, ret.arg) /\ FLt(ret.arg, Hi))
        => /\ Cardinality(Brackets(gradient, ret.arg)) = 1
           /\ \A j \in Brackets(gradient, ret.arg) :
                /\ ret.out.kind = "mix"
                /\ ret.out.min.index = j - 1
                /\ ret.out.max.index = j
                /\ ret.out.val =
                       Mix(gradient[j].c, gradient[j + 1].c,
                           FDiv(FSub(ret.arg, gradient[j].p),
                                FSub(gradient[j + 1].p, gradient[j].p)))

\* get was called on a control point strictly inside an ordered gradient of at least
\* three points, after at least one probe of the search
GetInsideWitness ==
    /\ Got /\ IsOrdered(gradient) /\ FLt(Lo, ret.arg) /\ FLt(ret.arg, Hi)
    /\ Len(gradient) >= 3
    /\ \E j \in 2..(Len(gradient) - 1) : gradient[j].p = ret.arg
    /\ Len(ret.out.probes) >= 1

\* the blend keeps its end values: blend(a, b, 0) = a and blend(a, b, 1) = b
BlendKeepsEnds(pts) ==
    \A j, k \in 1..Len(pts) :
        /\ Mix(pts[j].c, pts[k].c, Zero) = pts[j].c
        /\ Mix(pts[j].c, pts[k].c, One) = pts[k].c

\* C4 as stated: on a gradient built by new from k values, get(i/(k-1)) is the i-th
\* value, for every i in 0..k-1 (get(0) when k = 1)
NewGetAtEvenPositionIsInput ==
    (Got /\ made = "new" /\ BlendKeepsEnds(gradient))
        => \A i \in 0..(Len(gradient) - 1) :
               ret.arg = (IF Len(gradient) = 1 THEN Zero
                          ELSE FDiv(Cast(i), Cast(Len(gradient) - 1)))
                   => (~Failed(ret.out) /\ ret.out.val = gradient[i + 1].c)

\* C5 as stated: the domain of every gradient built by new is (0, 1)
NewDomainIsUnit ==
    (ret.op = "domain" /\ made = "new") => ret.val = <<Zero, One>>

\* C6: a constructor given no control points fails its assertion and builds nothing,
\* so a gradient that was built holds at least one control point
EmptyConstructionFails ==
    /\ (ret.op \in {"new", "with_domain"} /\ Len(ret.arg) = 0)
           => (st = "panic" /\ made = "none" /\ gradient = <<>>)
    /\ (made # "none" \/ st = "ready") => Len(gradient) >= 1

\* new was given the empty list and panicked
EmptyNewWitness == ret.op = "new" /\ Len(ret.arg) = 0 /\ st = "panic"

\* C7 as stated: on a gradient that was built, no call fails: every one returns
LookupIsTotal == made # "none" => (st = "ready" /\ (Got => ~Failed(ret.out)))

----------------------------------------------------------------------------
(* Properties of sampling, under SpecTake *)

Reverse(s) == [j \in 1..Len(s) |-> s[Len(s) + 1 - j]]

IsTerminal(t) == t.from_head + t.from_end = t.len

\* C8: the values of a fresh take(n) read forward until None, reversed, are the
\* values of a fresh take(n) of the same source read backward until None
ReversalLaw ==
    (ret.op = "collect" /\ IsFresh(ret.before) /\ ret.out.kind = "list")
        => LET other == Collect(gradient, ret.before, ~ret.back, <<>>)
           IN  /\ other.kind = "list"
               /\ Reverse(ret.out.vals) = other.vals

\* a fresh take(n), n >= 2, of a slice was read forward to the end and gave n values,
\* not all the same
ReversalWitness ==
    /\ ret.op = "collect" /\ ~ret.back /\ IsFresh(ret.before) /\ ret.out.kind = "list"
    /\ ret.before.src = "Slice" /\ ret.before.len >= 2
    /\ Len(ret.out.vals) = ret.before.len
    /\ ret.out.vals[1] # ret.out.vals[Len(ret.out.vals)]

\* the numbers of calls that return a value, over every way to go on calling next
\* and next_back until both return None (a call that fails ends the program)
RECURSIVE Yields(_, _)
Yields(pts, t) ==
    LET a == TakeNext(pts, t)
        b == TakeNextBack(pts, t)
        more(r) == IF r.out.kind = "none" \/ Failed(r.out) THEN {0}
                   ELSE {1 + k : k \in Yields(pts, r.take)}
    IN  more(a) \cup more(b)

\* the counters and size_hint of a Take: from_head + from_end <= len, and size_hint
\* is (r, Some(r)) for r = len - from_head - from_end, without underflow
SizeHintIsRemainder(t) ==
    /\ t.from_head + t.from_end <= t.len
    /\ TakeSizeHint(t) = [kind |-> "hint", lower |-> t.len - t.from_head - t.from_end,
                          upper |-> Some(t.len - t.from_head - t.from_end)]

\* C9 as stated: in every state of a Take, from_head + from_end <= n, size_hint is
\* (r, Some(r)) for r = n - from_head - from_end, and exactly r further calls of
\* next or next_back return a value
SizeHintIsExact ==
    (take.live /\ st = "ready")
        => /\ SizeHintIsRemainder(take)
           /\ Yields(gradient, take) = {take.len - take.from_head - take.from_end}

\* every lookup a Take of this source can make returns a value
SourceIsSound(pts, t) ==
    \A k \in 0..t.len :
        ~Failed(MaybeSliceGet(pts, t, IF t.len = 1 THEN t.from ELSE SampleAt(t, k)))

\* the part of C9 that holds: the counters and size_hint in every state, and the
\* count of further values on a source whose lookups all return
SizeHintIsExactOnSoundSource ==
    (take.live /\ st = "ready")
        => /\ SizeHintIsRemainder(take)
           /\ SourceIsSound(gradient, take)
                  => Yields(gradient, take) = {take.len - take.from_head - take.from_end}

\* a call of next or next_back on a Take that was terminal returned None and left
\* the Take as it was; on one that was not terminal it did not return None
TerminalCallReturnsNone ==
    (ret.op \in {"next", "next_back"})
        => /\ IsTerminal(ret.before) <=> ret.out.kind = "none"
           /\ IsTerminal(ret.before) => take = ret.before

SourceLo(pts, t) ==
    IF t.src = "NotSlice" THEN GradientDomain(pts)[1] ELSE SliceDomain(pts, t.range)[1]

\* C11: a single next or next_back on a fresh take(1) looks the source up at from,
\* the lower limit of its domain, and gives what that lookup gives, with no
\* division by n - 1 = 0; afterwards the Take is exhausted and both directions
\* return None
TakeOneIsSourceAtFrom ==
    (ret.op \in {"next", "next_back"} /\ ret.before.len = 1 /\ IsFresh(ret.before))
        => /\ ret.before.from = SourceLo(gradient, ret.before)
           /\ TakeNext(gradient, ret.before).at = ret.before.from
           /\ TakeNextBack(gradient, ret.before).at = ret.before.from
           /\ ret.out = MaybeSliceGet(gradient, ret.before, ret.before.from)
           /\ IsTerminal(take)
           /\ TakeNext(gradient, take) = [take |-> take, out |-> [kind |-> "none"]]
           /\ TakeNextBack(gradient, take) = [take |-> take, out |-> [kind |-> "none"]]

\* next was called on a fresh take(1) of a slice of a gradient of two points and
\* returned a value that is neither point's
TakeOneWitness ==
    /\ ret.op = "next" /\ ret.before.len = 1 /\ IsFresh(ret.before)
    /\ ret.before.src = "Slice" /\ Len(gradient) = 2
    /\ st = "ready" /\ ret.out.kind = "mix"
    /\ ret.out.val \notin {gradient[1].c, gradient[2].c}

----------------------------------------------------------------------------
(* Properties of whole sequences, under SpecSample *)

\* the domain of the source of a Take
SourceDomain(pts, t) ==
    IF t.src = "NotSlice" THEN GradientDomain(pts) ELSE SliceDomain(pts, t.range)

\* a fresh take(n), n >= 2, was collected forward
CollectedForward ==
    ret.op = "collect" /\ ~ret.back /\ IsFresh(ret.before) /\ ret.before.len >= 2

\* the sequence has n elements, element k being the source's value at
\* lo + ((hi - lo) / (n - 1)) * k
SequenceIsSampled ==
    CollectedForward
        => LET t == ret.before
               d == SourceDomain(gradient, t)
           IN  /\ ret.out.kind = "list"
               /\ Len(ret.out.vals) = t.len
               /\ \A k \in 0..(t.len - 1) :
                      LET g == MaybeSliceGet(gradient, t,
                                   FAdd(d[1], FMul(FDiv(FSub(d[2], d[1]), Cast(t.len - 1)), Cast(k))))
                      IN  ~Failed(g) /\ ret.out.vals[k + 1] = g.val

\* the first element is the source's value at the lower limit of its domain
SequenceStartsAtLo ==
    CollectedForward
        => LET lo == MaybeSliceGet(gradient, ret.before, SourceDomain(gradient, ret.before)[1])
           IN  /\ ret.out.kind = "list" /\ Len(ret.out.vals) >= 1
               /\ ~Failed(lo) /\ ret.out.vals[1] = lo.val

\* the last element is the source's value at the upper limit of its domain
SequenceEndsAtHi ==
    CollectedForward
        => LET hi == MaybeSliceGet(gradient, ret.before, SourceDomain(gradient, ret.before)[2])
           IN  /\ ret.out.kind = "list" /\ Len(ret.out.vals) >= 1
               /\ ~Failed(hi) /\ ret.out.vals[Len(ret.out.vals)] = hi.val

\* take(5) of the gradient new([A, B]) is [A, mix(1/4), mix(1/2), mix(3/4), B]
TakeFiveOfTwoStops ==
    (CollectedForward /\ ret.before.len = 5 /\ ret.before.src = "NotSlice"
         /\ made = "new" /\ Len(gradient) = 2)
        => LET A == gradient[1].c
               B == gradient[2].c
           IN  /\ ret.out.kind = "list"
               /\ ret.out.vals = <<A, Mix(A, B, Quarter), Mix(A, B, Half),
                                   Mix(A, B, ThreeQuarters), B>>

\* C12 as stated: the forward sequence of take(n), n >= 2, of a source with domain
\* (lo, hi) is source.get(lo + ((hi - lo)/(n-1)) * k) for k = 0..n-1: n elements,
\* the first the value at lo and the last the value at hi; take(5) of a two-stop
\* gradient A, B is [A, mix(1/4), mix(1/2), mix(3/4), B]
TakeIsEvenSampling ==
    /\ SequenceIsSampled
    /\ SequenceStartsAtLo
    /\ SequenceEndsAtHi
    /\ TakeFiveOfTwoStops

----------------------------------------------------------------------------
(* Properties of the range algebra, under SpecRange *)

HasBoth(r) == r.from.some /\ r.to.some
IsUnbounded(r) == ~r.from.some /\ ~r.to.some
IsInverted(r) == HasBoth(r) /\ FGt(r.from.v, r.to.v)

\* min(to, max(from, x)), skipping an absent bound
BoundedInto(r, x) ==
    LET y == IF r.from.some THEN FMax(r.from.v, x) ELSE x
    IN  IF r.to.some THEN FMin(r.to.v, y) ELSE y

Clamped == ret.op = "clamp"

\* C13: clamp(x) is min(to, max(from, x)) with an absent bound skipped: x itself
\* on an unbounded range, a value in [from, to] when from <= to, and to for every
\* x when from > to
ClampIsBoundedInto ==
    Clamped
        => /\ ret.val = BoundedInto(ret.self, ret.arg)
           /\ IsUnbounded(ret.self) => ret.val = ret.arg
           /\ (HasBoth(ret.self) /\ FLe(ret.self.from.v, ret.self.to.v))
                  => (FLe(ret.self.from.v, ret.val) /\ FLe(ret.val, ret.self.to.v))
           /\ IsInverted(ret.self) => ret.val = ret.self.to.v

\* a range with from > to clamped an x above its from to its to
ClampInvertedWitness ==
    /\ Clamped /\ IsInverted(ret.self)
    /\ FGt(ret.arg, ret.self.from.v)
    /\ ret.val = ret.self.to.v

\* C14: clamp is idempotent: clamping the result of clamp(x) by the same range
\* gives it again, for every x and every range, absent bounds and from > to included
ClampIsIdempotent ==
    Clamped => RangeClamp(ret.self, ret.val) = ret.val

\* a range with both bounds clamped an x outside it to a value other than x
ClampMovedWitness ==
    /\ Clamped /\ HasBoth(ret.self)
    /\ FLt(ret.arg, ret.self.from.v) /\ FLt(ret.self.from.v, ret.self.to.v)
    /\ ret.val # ret.arg
    /\ RangeClamp(ret.self, ret.val) = ret.val

Constrained == ret.op = "constrain"

\* C15 as stated: r.constrain(r) is r, for every range r
ConstrainBySelfIsSelf ==
    (Constrained /\ ret.other = ret.self) => ret.val = ret.self

\* C15 amended: r.constrain(r) is r for every range r that does not have
\* from > to, and the zero-width range (to, to) for one that has
ConstrainBySelfIsSelfUnlessInverted ==
    (Constrained /\ ret.other = ret.self)
        => IF IsInverted(ret.self)
           THEN ret.val = [from |-> ret.self.to, to |-> ret.self.to]
           ELSE ret.val = ret.self

\* a range with from < to, made by a constrain, was constrained by itself and came
\* back unchanged
ConstrainBySelfWitness ==
    /\ Constrained /\ ret.other = ret.self /\ Len(ret.chain) = 2
    /\ HasBoth(ret.self) /\ FLt(ret.self.from.v, ret.self.to.v)
    /\ ret.self # ret.base
    /\ ret.val = ret.self

\* the greatest of the bounds that are present (none when both are absent)
MaxOfPresent(a, b) ==
    IF a.some /\ b.some THEN Some(FMax(a.v, b.v))
    ELSE IF a.some THEN a
    ELSE IF b.some THEN b
    ELSE None

\* the least of the bounds that are present (none when both are absent)
MinOfPresent(a, b) ==
    IF a.some /\ b.some THEN Some(FMin(a.v, b.v))
    ELSE IF a.some THEN a
    ELSE IF b.some THEN b
    ELSE None

\* the three cases of constrain, in order
ThreeCases(self, other) ==
    CASE other.from.some /\ self.to.some /\ FGe(other.from.v, self.to.v)
             -> [from |-> self.to, to |-> self.to]
      [] ~(other.from.some /\ self.to.some /\ FGe(other.from.v, self.to.v))
           /\ other.to.some /\ self.from.some /\ FLe(other.to.v, self.from.v)
             -> [from |-> self.from, to |-> self.from]
      [] OTHER -> [from |-> MaxOfPresent(self.from, other.from),
                   to |-> MinOfPresent(self.to, other.to)]

\* C16: self.constrain(other) is (self.to, self.to) when other.from >= self.to,
\* else (self.from, self.from) when other.to <= self.from (the bounds compared being
\* present), and otherwise the max of the present from bounds and the min of the
\* present to bounds
ConstrainIsThreeCases ==
    Constrained => ret.val = ThreeCases(ret.self, ret.other)

\* a range was constrained by one that lies above its to and below its from at
\* once, and collapsed onto its to
ConstrainBothCasesWitness ==
    /\ Constrained /\ HasBoth(ret.self) /\ HasBoth(ret.other)
    /\ FLt(ret.self.from.v, ret.self.to.v)
    /\ FGe(ret.other.from.v, ret.self.to.v) /\ FLe(ret.other.to.v, ret.self.from.v)
    /\ ret.val = [from |-> ret.self.to, to |-> ret.self.to]

\* the composition of two ranges with both bounds is contradictory or inverted
IsContradictory(self, other) ==
    FGt(FMax(self.from.v, other.from.v), FMin(self.to.v, other.to.v))

\* C17 as stated: for self and other with both bounds present, a contradictory or
\* inverted composition (other with from > to included) gives a range with
\* from == to; and constrain never returns a range with from > to
ConstrainCollapses ==
    Constrained
        => /\ (HasBoth(ret.self) /\ HasBoth(ret.other) /\ IsContradictory(ret.self, ret.other))
                  => (HasBoth(ret.val) /\ ret.val.from = ret.val.to)
           /\ ~IsInverted(ret.val)

\* what holds of C17: when neither self nor other has from > to, the result has
\* not either, and a contradictory composition of two such ranges with both bounds
\* gives a range with from == to
ConstrainCollapsesOrdered ==
    (Constrained /\ ~IsInverted(ret.self) /\ ~IsInverted(ret.other))
        => /\ (HasBoth(ret.self) /\ HasBoth(ret.other) /\ IsContradictory(ret.self, ret.other))
                  => (HasBoth(ret.val) /\ ret.val.from = ret.val.to)
           /\ ~IsInverted(ret.val)

\* a.constrain(b).constrain(c) was computed
ConstrainedTwice == Constrained /\ Len(ret.chain) = 2

\* C18 as stated: constrain is associative: a.constrain(b).constrain(c) is
\* a.constrain(b.constrain(c)), for all ranges a, b, c
ConstrainIsAssociative ==
    ConstrainedTwice
        => ret.val = RangeConstrain(ret.base, RangeConstrain(ret.chain[1], ret.chain[2]))

\* what holds of C18: the two groupings agree when none of a, b, c has from > to
ConstrainIsAssociativeOrdered ==
    (ConstrainedTwice /\ ~IsInverted(ret.base)
         /\ ~IsInverted(ret.chain[1]) /\ ~IsInverted(ret.chain[2]))
        => ret.val = RangeConstrain(ret.base, RangeConstrain(ret.chain[1], ret.chain[2]))

----------------------------------------------------------------------------
(* Properties of slices, under SpecSlice *)

SliceGot == ret.op = "slice_get"
SliceLo == SliceDomain(gradient, slice.range)[1]
SliceHi == SliceDomain(gradient, slice.range)[2]

\* s.get(p) is g.get(r.clamp(p))
SliceGetIsClampedGet ==
    SliceGot => ret.out = GradientGet(gradient, RangeClamp(slice.range, ret.arg))

\* two lookups gave the same: the same colour, or the same failure
SameResult(a, b) == IF Failed(a) \/ Failed(b) THEN a.kind = b.kind ELSE a.val = b.val

\* s.get(p) is s.get(lo) for p below the slice's domain (lo, hi)
SliceGetBelowIsAtLo ==
    (SliceGot /\ FLt(ret.arg, SliceLo))
        => SameResult(ret.out, SliceGet(gradient, slice.range, SliceLo))

\* s.get(p) is s.get(hi) for p above the slice's domain (lo, hi)
SliceGetAboveIsAtHi ==
    (SliceGot /\ FGt(ret.arg, SliceHi))
        => SameResult(ret.out, SliceGet(gradient, slice.range, SliceHi))

SliceDomainIsRangeOrParent ==
    ret.op = "slice_domain"
        => /\ HasBoth(slice.range) => ret.val = <<slice.range.from.v, slice.range.to.v>>
           /\ ret.val[1] = (IF slice.range.from.some THEN slice.range.from.v ELSE Lo)
           /\ ret.val[2] = (IF slice.range.to.some THEN slice.range.to.v ELSE Hi)

\* the domain was asked of a slice with a from bound only, inside a gradient whose
\* limits differ from it
SliceDomainHalfOpenWitness ==
    /\ ret.op = "slice_domain"
    /\ slice.range.from.some /\ ~slice.range.to.some
    /\ FLt(Lo, slice.range.from.v) /\ FLt(slice.range.from.v, Hi)
    /\ ret.val = <<slice.range.from.v, Hi>>

----------------------------------------------------------------------------
(* Properties of chains of slices, under SpecChain *)

\* r1.constrain(r2)...constrain(rm), folded left to right
RECURSIVE ConstrainAll(_, _)
ConstrainAll(range, ranges) ==
    IF ranges = <<>> THEN range
    ELSE ConstrainAll(RangeConstrain(range, Head(ranges)), Tail(ranges))

\* the slice made by a chain refers to the Gradient and has the folded range, and
\* so has every slice made on the way
ChainIsFold ==
    ret.op = "slice_chain"
        => /\ Len(ret.steps) = Len(ret.arg)
           /\ slice = ret.steps[Len(ret.steps)]
           /\ \A m \in 1..Len(ret.arg) :
                  /\ ret.steps[m].gradient = "Gradient"
                  /\ ret.steps[m].range = ConstrainAll(ret.arg[1], SubSeq(ret.arg, 2, m))

\* a slice call made a slice of the Gradient whose range is the receiver's
\* constrained by the range given, and the receiver is as it was before the call
SliceCallKeepsReceiver ==
    /\ (ret'.op = "slice_slice" /\ ret' # ret)
           => /\ ret'.of = slice.range
              /\ slice'.gradient = "Gradient"
              /\ slice'.range = RangeConstrain(slice.range, ret'.arg)
    /\ (ret'.op = "slice" /\ ret' # ret)
           => /\ slice' = [live |-> TRUE, gradient |-> "Gradient", range |-> ret'.arg]
              /\ gradient' = gradient

\* C21: after any chain g.slice(r1).slice(r2)...slice(rm) the slice refers to the
\* Gradient g itself, never to a Slice, its range is r1.constrain(r2)...constrain(rm)
\* folded left to right, and each slice call leaves its receiver and the
\* receiver's range unchanged
SliceChainIsFlat ==
    /\ [](ChainIsFold /\ (slice.live => slice.gradient = "Gradient"))
    /\ [][SliceCallKeepsReceiver]_vars

\* a chain of three slice calls whose grouping matters ended on a slice of the
\* Gradient
SliceChainWitness ==
    /\ ret.op = "slice_chain" /\ Len(ret.arg) = 3
    /\ slice.gradient = "Gradient"
    /\ slice.range = ConstrainAll(ret.arg[1], SubSeq(ret.arg, 2, 3))
    /\ slice.range # RangeConstrain(ret.arg[1], RangeConstrain(ret.arg[2], ret.arg[3]))

----------------------------------------------------------------------------
(* Properties of the domain of slices, under SpecSlice *)

\* the domain d lies within the domain (lo, hi)
Within(d, lo, hi) ==
    /\ FLe(lo, d[1]) /\ FLe(d[1], hi)
    /\ FLe(lo, d[2]) /\ FLe(d[2], hi)

\* C22 as stated: for every slice s with domain (lo, hi), slices with an absent
\* bound included, and every range r, the domain of s.slice(r) lies within
\* [lo, hi]; r wholly above it gives (hi, hi) and r wholly below it gives (lo, lo)
SliceOfSliceIsWithin ==
    ret.op = "slice_slice"
        => LET of == SliceDomain(gradient, ret.of)
               d == SliceDomain(gradient, slice.range)
           IN  /\ Within(d, of[1], of[2])
               /\ (ret.arg.from.some /\ FGe(ret.arg.from.v, of[2])) => d = <<of[2], of[2]>>
               /\ (ret.arg.to.some /\ FLe(ret.arg.to.v, of[1])) => d = <<of[1], of[1]>>

\* what holds of C22: the same, for a receiver with both bounds present and
\* from <= to and a range r that has not from > to
SliceOfBoundedSliceIsWithin ==
    (ret.op = "slice_slice" /\ HasBoth(ret.of) /\ FLe(ret.of.from.v, ret.of.to.v)
         /\ ~IsInverted(ret.arg))
        => LET of == SliceDomain(gradient, ret.of)
               d == SliceDomain(gradient, slice.range)
           IN  /\ Within(d, of[1], of[2])
               /\ (ret.arg.from.some /\ FGe(ret.arg.from.v, of[2])) => d = <<of[2], of[2]>>
               /\ (ret.arg.to.some /\ FLe(ret.arg.to.v, of[1])) => d = <<of[1], of[1]>>

\* C23 as stated: for every gradient g with domain (lo, hi) and every range r,
\* the domain (a, b) of g.slice(r) has lo <= a <= b <= hi
SliceIsWithinGradient ==
    ret.op = "slice"
        => LET d == SliceDomain(gradient, slice.range)
           IN  FLe(Lo, d[1]) /\ FLe(d[1], d[2]) /\ FLe(d[2], Hi)

\* what holds of C23: the same, when the bounds of r that are present lie in
\* [lo, hi] in order
SliceInsideIsWithinGradient ==
    (ret.op = "slice" /\ ~IsInverted(ret.arg)
         /\ FLe(Lo, Hi)
         /\ (ret.arg.from.some => (FLe(Lo, ret.arg.from.v) /\ FLe(ret.arg.from.v, Hi)))
         /\ (ret.arg.to.some => (FLe(Lo, ret.arg.to.v) /\ FLe(ret.arg.to.v, Hi))))
        => LET d == SliceDomain(gradient, slice.range)
           IN  FLe(Lo, d[1]) /\ FLe(d[1], d[2]) /\ FLe(d[2], Hi)

----------------------------------------------------------------------------
(* Properties of sampled slices, under SpecSample *)

\* the position a + (b - a) * k/(n-1): as the scalar nearest to it, and as the
\* expression evaluated in the scalar's own arithmetic
ClaimedPositions(a, b, n, k) ==
    {RoundRat(a.k * (n - 1) + (b.k - a.k) * k, n - 1),
     FAdd(a, FDiv(FMul(FSub(b, a), Cast(k)), Cast(n - 1)))}

\* a fresh take(n), n >= 2, of g.slice(a..b) with lo <= a <= b <= hi was collected
\* forward
CollectedInnerSlice ==
    /\ CollectedForward /\ ret.before.src = "Slice"
    /\ HasBoth(ret.before.range)
    /\ FLe(Lo, ret.before.range.from.v)
    /\ FLe(ret.before.range.from.v, ret.before.range.to.v)
    /\ FLe(ret.before.range.to.v, Hi)

\* element k of g.slice(a..b).take(n) is g.get(a + (b - a) * k/(n-1))
SliceSampleIsGradientAt ==
    CollectedInnerSlice
        => LET t == ret.before
           IN  /\ ret.out.kind = "list"
               /\ Len(ret.out.vals) = t.len
               /\ \A k \in 0..(t.len - 1) :
                      \E p \in ClaimedPositions(t.range.from.v, t.range.to.v, t.len, k) :
                          LET g == GradientGet(gradient, p)
                          IN  ~Failed(g) /\ ret.out.vals[k + 1] = g.val

\* on new([A, B]), slice(..0.5).take(5) is the first 5 elements of take(9)
HalfSliceIsHalfOfTake ==
    (CollectedForward /\ ret.before.src = "Slice" /\ ret.before.len = 5
         /\ ret.before.range = [from |-> None, to |-> Some(Half)]
         /\ made = "new" /\ Len(gradient) = 2)
        => LET whole == Collect(gradient, GradientTake(gradient, 9), FALSE, <<>>)
           IN  /\ ret.out.kind = "list" /\ whole.kind = "list"
               /\ ret.out.vals = SubSeq(whole.vals, 1, 5)

\* C24 as stated: for g with domain [lo, hi], lo <= a <= b <= hi and n >= 2,
\* element k of g.slice(a..b).take(n) is g.get(a + (b - a) * k/(n-1)); and on a
\* two-stop gradient on [0, 1], slice(..0.5).take(5) is the first 5 elements of
\* g.take(9)
SliceSamplingIsGradientSampling ==
    /\ SliceSampleIsGradientAt
    /\ HalfSliceIsHalfOfTake

----------------------------------------------------------------------------
(* Properties of a gradient in use, under SpecUse *)

\* a step of an operation on a constructed gradient
IsUse == st = "ready"

\* C25: a Gradient is immutable after construction: no get, domain, slice, take,
\* Slice::get, Slice::domain, Slice::slice, Slice::take, next or next_back
\* changes the list of control points, so get(p) and domain() return the same
\* before and after it
UseKeepsGradient ==
    IsUse => /\ gradient' = gradient
             /\ made' = made
             /\ \A p \in UsePositions : GradientGet(gradient', p) = GradientGet(gradient, p)
             /\ GradientDomain(gradient') = GradientDomain(gradient)

GradientIsImmutable == [][UseKeepsGradient]_vars

\* an iterator over a slice was advanced from both ends, and the last call was a
\* lookup in the slice
GradientInUseWitness ==
    /\ st = "ready" /\ Len(gradient) = 2
    /\ slice.live /\ take.live /\ take.src = "Slice"
    /\ take.from_head > 0 /\ take.from_end > 0
    /\ ret.op = "slice_get"

----------------------------------------------------------------------------
(* Properties of the search and the blend in Gradient::get, under SpecGet *)

\* a lookup reached the blend
Blended == ret.op = "get" /\ ret.out.kind = "mix"

\* the bracketing positions and the factor of a blend are as claimed
FactorIsBracketed ==
    /\ FLt(ret.out.min.p, ret.arg) /\ FLe(ret.arg, ret.out.max.p)
    /\ FGt(FSub(ret.out.max.p, ret.out.min.p), Zero)
    /\ FGt(ret.out.factor, Zero) /\ FLe(ret.out.factor, One)

\* no position involved in the lookup is NaN
LookupIsNumeric ==
    /\ ~IsNaN(ret.arg)
    /\ \A n \in 1..Len(gradient) : ~IsNaN(gradient[n].p)

\* C26 as stated: whenever get reaches the blend, min_pos < position <= max_pos,
\* so max_pos - min_pos > 0 and the factor passed to the blend is in (0, 1], for
\* every non-empty list of control points, unordered and duplicate positions
\* included
FactorIsInUnitInterval == Blended => FactorIsBracketed

\* the same when neither the position nor a control point's position is NaN
FactorIsInUnitIntervalNumeric == (Blended /\ LookupIsNumeric) => FactorIsBracketed

\* the least e with 2^e >= n, for n >= 1
RECURSIVE CeilLog2From(_, _)
CeilLog2From(n, e) == IF Pow2(e) >= n THEN e ELSE CeilLog2From(n, e + 1)
CeilLog2(n) == CeilLog2From(n, 0)

\* the iterations of a search over k control points are as claimed: probes are
\* the iterations in order, min and max the indices the loop exited with
SearchSteps(k, probes, min, max) ==
    /\ \A n \in 1..Len(probes) :
          LET q == probes[n]
              after == IF n < Len(probes)
                       THEN probes[n + 1].max_index - probes[n + 1].min_index
                       ELSE max - min
          IN  /\ q.max_index - q.min_index >= 2
              /\ q.min_index < q.index /\ q.index < q.max_index
              /\ 0 <= q.min_index /\ q.min_index < q.max_index /\ q.max_index <= k - 1
              /\ after < q.max_index - q.min_index
    /\ 0 <= min /\ min < max /\ max <= k - 1
    /\ max - min = 1
    /\ Len(probes) <= CeilLog2(k - 1)

\* a lookup went past both early returns
Searched == ret.op = "get" /\ ret.out.kind \notin {"first", "last"}

\* C27 as stated: in the search of get over k control points every iteration
\* starts with max_index - min_index >= 2, probes an index strictly between the
\* two, keeps 0 <= min_index < max_index <= k-1 and shrinks the difference, and
\* the loop exits with difference 1 after at most ceil(log2(k-1)) iterations, for
\* any list of control points, ordered or not
SearchIsBinary ==
    Searched => /\ ret.out.kind = "mix"
                /\ SearchSteps(Len(gradient), ret.out.probes,
                               ret.out.min.index, ret.out.max.index)

\* the same for two control points or more
SearchIsBinaryOnTwoOrMore == (Searched /\ Len(gradient) >= 2) => SearchIsBinary

----------------------------------------------------------------------------
(* Properties of a Take read from both ends, under SpecTake *)

\* a call of next or next_back on a take(n), n >= 2, returned a value
Yielded ==
    /\ ret.op \in {"next", "next_back"}
    /\ ret.before.len >= 2
    /\ ret.out.kind # "none" /\ ~Failed(ret.out)

\* the index of the sample the call is to return: the j-th value of next is sample
\* j - 1 and the j-th value of next_back is sample n - j
YieldIndex ==
    IF ret.op = "next" THEN (ret.before.from_head + 1) - 1
    ELSE ret.before.len - (ret.before.from_end + 1)

\* the call returned its sample, incremented its own counter by one and left the
\* rest of the Take as it was
YieldIsInOrder ==
    /\ ret.out = MaybeSliceGet(gradient, ret.before, SampleAt(ret.before, YieldIndex))
    /\ take = IF ret.op = "next"
              THEN [ret.before EXCEPT !.from_head = @ + 1]
              ELSE [ret.before EXCEPT !.from_end = @ + 1]

\* the samples next has yielded so far, and those next_back has
YieldedByNext(t) == 0..(t.from_head - 1)
YieldedByNextBack(t) == (t.len - t.from_end)..(t.len - 1)

\* no sample was yielded from both ends, and however the calls go on, exactly the
\* samples not yet yielded follow: n values in all
YieldsEachOnce(t) ==
    /\ YieldedByNext(t) \cap YieldedByNextBack(t) = {}
    /\ Yields(gradient, t) = {t.len - Cardinality(YieldedByNext(t) \cup YieldedByNextBack(t))}

\* C28 as stated: for take(n), n >= 2, and every interleaving of next and
\* next_back, the j-th successful next returns sample j-1 and the j-th successful
\* next_back sample n-j; the call increments exactly one counter by 1 and leaves
\* the other counter, len, from and diff unchanged; exactly n calls succeed in
\* all and every index 0..n-1 is yielded exactly once, never from both ends
InterleavedTakeIsExact ==
    /\ Yielded => YieldIsInOrder
    /\ (take.live /\ st = "ready" /\ take.len >= 2) => YieldsEachOnce(take)

\* the same on a source whose lookups all return
InterleavedTakeIsExactOnSoundSource ==
    /\ Yielded => YieldIsInOrder
    /\ (take.live /\ st = "ready" /\ take.len >= 2 /\ SourceIsSound(gradient, take))
           => YieldsEachOnce(take)

----------------------------------------------------------------------------
(* Properties of a gradient of one control point, under SpecGet *)

\* a lookup in a gradient of one control point
SinglePointLookup == ret.op = "get" /\ Len(gradient) = 1

\* the lookup returned the control point's value from one of the early returns
ReturnsEarly == ret.out.kind \in {"first", "last"} /\ ret.out.val = gradient[1].c

\* C29 as stated: on a gradient of exactly one control point get(p) returns that
\* point's value for every position p from one of the two early returns, so the
\* loop condition, whose subtraction would underflow, is never evaluated
SinglePointReturnsEarly == SinglePointLookup => ReturnsEarly

\* the same when neither the position nor the control point's position is NaN
SinglePointReturnsEarlyNumeric == (SinglePointLookup /\ LookupIsNumeric) => ReturnsEarly

----------------------------------------------------------------------------
(* Chained slicing and nested clamping, under SpecRange and SpecSlice *)

\* a present from/to pair satisfies from <= to
IsWellFormed(r) == HasBoth(r) => FLe(r.from.v, r.to.v)

\* a.constrain(b).clamp(x) was computed, for well-formed a and b
ClampedComposition ==
    /\ Clamped /\ Len(ret.chain) = 1
    /\ IsWellFormed(ret.base) /\ IsWellFormed(ret.chain[1])

\* a.constrain(b).clamp(x) is a.clamp(b.clamp(x))
CompositionIsNestedClamp ==
    ret.val = RangeClamp(ret.base, RangeClamp(ret.chain[1], ret.arg))

\* on the ranges of SpecRange, NaN bounds included: a.constrain(b).clamp(x) is
\* a.clamp(b.clamp(x)) for well-formed a and b and every x
ConstrainIsNestedClamp == ClampedComposition => CompositionIsNestedClamp

\* the same for every x that is not NaN
ConstrainIsNestedClampOfNumber ==
    (ClampedComposition /\ ~IsNaN(ret.arg)) => CompositionIsNestedClamp

\* g.slice(a).slice(b) was made, for well-formed a and b
SlicedTwice ==
    /\ ret.op = "slice_slice"
    /\ IsWellFormed(ret.of) /\ IsWellFormed(ret.arg)

\* at x: a.constrain(b).clamp(x) is a.clamp(b.clamp(x)), and
\* g.slice(a).slice(b).get(x) is g.slice(a).get(b.clamp(x))
ChainIsNestedAt(x) ==
    /\ RangeClamp(RangeConstrain(ret.of, ret.arg), x)
           = RangeClamp(ret.of, RangeClamp(ret.arg, x))
    /\ SameResult(SliceGet(gradient, slice.range, x),
                  SliceGet(gradient, ret.of, RangeClamp(ret.arg, x)))

\* C30 as stated: for all ranges a and b in which a present from/to pair
\* satisfies from <= to, and every x, a.constrain(b).clamp(x) is
\* a.clamp(b.clamp(x)); hence g.slice(a).slice(b).get(x) is
\* g.slice(a).get(b.clamp(x))
ChainedSliceIsNestedClamp ==
    SlicedTwice => \A x \in ClampArgs : ChainIsNestedAt(x)

\* the same for every x that is not NaN
ChainedSliceIsNestedClampOfNumber ==
    SlicedTwice => \A x \in ClampArgs : ~IsNaN(x) => ChainIsNestedAt(x)

====
